---- MODULE Spec2Model ----
(***************************************************************************)
(* A model of the message tool of clawdbot                                 *)
(* (src/agents/tools/message-tool.ts): the action catalog computed from    *)
(* the configuration (buildMessageActionList), the advertised schema       *)
(* (buildMessageToolSchema) and the dispatch of one call of execute, from  *)
(* the first parameter read to the collaborator's answer.                  *)
(***************************************************************************)
EXTENDS Integers, Sequences, FiniteSets, TLC

VARIABLES
    cfg,        \* the configuration snapshot (options.config / loadConfig())
    schema,     \* what createMessageTool advertises: [actions, includeButtons]
    req,        \* the arguments of the call of execute in progress
    pc,         \* where execute stands: idle, awaiting, done
    provider,   \* providerSelection.provider once resolved, "" before
    log,        \* the extractor reads and collaborator calls of this call, in order
    rest,       \* the steps execute has left once the awaited call answers
    outcome,    \* how the call ended (or "pending")
    hasRepliedRef, \* the value of each session's "reply already sent" flag
    calls,      \* two invocations of execute that may be in flight together
    agent       \* agent.modelAliases as configured, and once defaults are applied

vars ==
    <<cfg, schema, req, pc, provider, log, rest, outcome, hasRepliedRef, calls,
      agent>>

(***************************************************************************)
(* Bounds of the model.                                                    *)
(***************************************************************************)
\* how many parameters of a call differ from a complete, well-formed bag
MaxDeviations == 2
\* how many accounts one provider section of the configuration lists
MaxAccounts == 2
\* how many aliases agent.modelAliases sets
MaxAliases == 2
\* how many options a poll is given
MaxPollOptions == 3

(***************************************************************************)
(* Names.                                                                  *)
(***************************************************************************)
AllMessageActions ==
    << "send", "poll", "react", "reactions", "read", "edit", "delete",
       "pin", "unpin", "list-pins", "permissions", "thread-create",
       "thread-list", "thread-reply", "search", "sticker", "member-info",
       "role-info", "emoji-list", "emoji-upload", "sticker-upload",
       "role-add", "role-remove", "channel-info", "channel-list",
       "voice-status", "event-list", "event-create", "timeout", "kick",
       "ban" >>

Range(s) == { s[i] : i \in DOMAIN s }

KnownActions == Range(AllMessageActions)

\* The providers the tool's description names.  The dispatch tells discord,
\* slack, telegram and whatsapp apart; every other provider takes the same
\* path, and signal and msteams stand for them.
Providers == { "discord", "slack", "telegram", "whatsapp", "signal", "msteams" }

Handlers ==
    { "handleDiscordAction", "handleSlackAction", "handleTelegramAction",
      "handleWhatsAppAction" }

Dispatchers == Handlers \cup { "sendMessage", "sendPoll" }

(***************************************************************************)
(* The configuration, as far as the tool reads it.  A provider section is  *)
(* present or not; discord, slack and telegram list accounts, each enabled *)
(* or not and with or without a credential (tokenSource / botTokenSource   *)
(* "none"); an `actions` object maps capability keys to true or false and  *)
(* leaves the others unset.                                                *)
(***************************************************************************)
GateKeys ==
    { "reactions", "messages", "pins", "polls", "permissions", "threads",
      "search", "stickers", "memberInfo", "roleInfo", "emojiList",
      "emojiUploads", "stickerUploads", "roles", "channelInfo",
      "voiceStatus", "events", "moderation" }

SlackKeys == { "reactions", "messages", "pins", "memberInfo", "emojiList" }

NoGates == [k \in GateKeys |-> "unset"]

\* createActionGate(actions)(key, defaultValue): an explicit true or false
\* decides, an unset key takes the default.
createActionGate(actions, key, defaultValue) ==
    IF actions[key] = "unset" THEN defaultValue ELSE actions[key] = "true"

\* listEnabled<Provider>Accounts(cfg): the accounts of the section that are
\* enabled, in the section's order.
Enabled(a) == a.enabled

listEnabledDiscordAccounts(c) ==
    IF c.discord.present THEN SelectSeq(c.discord.accounts, Enabled)
    ELSE << >>

listEnabledSlackAccounts(c) ==
    IF c.slack.present THEN SelectSeq(c.slack.accounts, Enabled) ELSE << >>

listEnabledTelegramAccounts(c) ==
    IF c.telegram.present THEN SelectSeq(c.telegram.accounts, Enabled)
    ELSE << >>

\* resolveMSTeamsCredentials(cfg.msteams): the credentials, if complete.
resolveMSTeamsCredentials(m) == m.credentials

\* The credential filter left out: every enabled account counts.
HasTokenAlways(a) == TRUE

HasToken(a) == a.tokenSource # "none"

\* if (gate(key, defaultValue)) return true, for each account in turn
RECURSIVE AnySlackGate(_, _, _, _)
AnySlackGate(accounts, c, key, defaultValue) ==
    IF accounts = << >> THEN FALSE
    ELSE LET account == Head(accounts)
             actions == IF account.hasActions THEN account.actions
                        ELSE c.slack.actions
         IN  IF createActionGate(actions, key, defaultValue) THEN TRUE
             ELSE AnySlackGate(Tail(accounts), c, key, defaultValue)

slackAccounts(c) == SelectSeq(listEnabledSlackAccounts(c), HasToken)

\* A loop that returns the first account's answer instead of going on to
\* the next account.
isSlackActionEnabledFirstOnly(c, key, defaultValue) ==
    IF Len(slackAccounts(c)) = 0 THEN FALSE
    ELSE AnySlackGate(<< Head(slackAccounts(c)) >>, c, key, defaultValue)

isSlackActionEnabled(c, key, defaultValue) ==
    IF Len(slackAccounts(c)) = 0 THEN FALSE
    ELSE AnySlackGate(slackAccounts(c), c, key, defaultValue)

discordEnabled(c) == Len(SelectSeq(listEnabledDiscordAccounts(c), HasToken)) > 0

\* discordGate called without its default: an unset key grants.
discordGateDefaultTrue(c, key, defaultValue) ==
    createActionGate(IF c.discord.present THEN c.discord.actions ELSE NoGates,
                     key, TRUE)

discordGate(c, key, defaultValue) ==
    createActionGate(IF c.discord.present THEN c.discord.actions ELSE NoGates,
                     key, defaultValue)

telegramEnabled(c) ==
    Len(SelectSeq(listEnabledTelegramAccounts(c), HasToken)) > 0

telegramGate(c, key) ==
    createActionGate(IF c.telegram.present THEN c.telegram.actions
                     ELSE NoGates, key, TRUE)

whatsappGate(c, key) ==
    createActionGate(IF c.whatsapp.present THEN c.whatsapp.actions
                     ELSE NoGates, key, TRUE)

msteamsEnabled(c) ==
    /\ ~(c.msteams.present /\ c.msteams.enabled = "false")
    /\ c.msteams.present /\ resolveMSTeamsCredentials(c.msteams)

\* A family added on its gate alone, discordEnabled left out.
DiscordFamilyGateOnly(c, key, defaultValue, names) ==
    IF discordGate(c, key, defaultValue) THEN names ELSE { }

\* The discord-only families: `if (discordEnabled && discordGate(key))`.
DiscordFamily(c, key, defaultValue, names) ==
    IF discordEnabled(c) /\ discordGate(c, key, defaultValue) THEN names
    ELSE { }

\* The catalog starts empty.
InitialActionsNone == { }

\* const actions = new Set<string>(["send"])
InitialActions == { "send" }

buildMessageActionList(c) ==
    LET canDiscordReactions == discordEnabled(c) /\ discordGate(c, "reactions", TRUE)
        canSlackReactions == isSlackActionEnabled(c, "reactions", TRUE)
        canTelegramReactions == telegramEnabled(c) /\ telegramGate(c, "reactions")
        canWhatsAppReactions ==
            IF c.whatsapp.present THEN whatsappGate(c, "reactions") ELSE FALSE
        canAnyReactions ==
            \/ canDiscordReactions
            \/ canSlackReactions
            \/ canTelegramReactions
            \/ canWhatsAppReactions
        canDiscordMessages == discordEnabled(c) /\ discordGate(c, "messages", TRUE)
        canSlackMessages == isSlackActionEnabled(c, "messages", TRUE)
        canDiscordPins == discordEnabled(c) /\ discordGate(c, "pins", TRUE)
        canSlackPins == isSlackActionEnabled(c, "pins", TRUE)
        canDiscordPolls == discordEnabled(c) /\ discordGate(c, "polls", TRUE)
        canWhatsAppPolls ==
            IF c.whatsapp.present THEN whatsappGate(c, "polls") ELSE FALSE
    IN  InitialActions
        \cup (IF canAnyReactions THEN { "react" } ELSE { })
        \cup (IF canDiscordReactions \/ canSlackReactions
              THEN { "reactions" } ELSE { })
        \cup (IF canDiscordMessages \/ canSlackMessages
              THEN { "read", "edit", "delete" } ELSE { })
        \cup (IF canDiscordPins \/ canSlackPins
              THEN { "pin", "unpin", "list-pins" } ELSE { })
        \cup (IF canDiscordPolls \/ canWhatsAppPolls \/ msteamsEnabled(c)
              THEN { "poll" } ELSE { })
        \cup DiscordFamily(c, "permissions", TRUE, { "permissions" })
        \cup DiscordFamily(c, "threads", TRUE,
                           { "thread-create", "thread-list", "thread-reply" })
        \cup DiscordFamily(c, "search", TRUE, { "search" })
        \cup DiscordFamily(c, "stickers", TRUE, { "sticker" })
        \cup (IF \/ discordEnabled(c) /\ discordGate(c, "memberInfo", TRUE)
                 \/ isSlackActionEnabled(c, "memberInfo", TRUE)
              THEN { "member-info" } ELSE { })
        \cup DiscordFamily(c, "roleInfo", TRUE, { "role-info" })
        \cup (IF \/ discordEnabled(c) /\ discordGate(c, "reactions", TRUE)
                 \/ isSlackActionEnabled(c, "emojiList", TRUE)
              THEN { "emoji-list" } ELSE { })
        \cup DiscordFamily(c, "emojiUploads", TRUE, { "emoji-upload" })
        \cup DiscordFamily(c, "stickerUploads", TRUE, { "sticker-upload" })
        \cup DiscordFamily(c, "roles", FALSE, { "role-add", "role-remove" })
        \cup DiscordFamily(c, "channelInfo", TRUE,
                           { "channel-info", "channel-list" })
        \cup DiscordFamily(c, "voiceStatus", TRUE, { "voice-status" })
        \cup DiscordFamily(c, "events", TRUE, { "event-list", "event-create" })
        \cup DiscordFamily(c, "moderation", FALSE, { "timeout", "kick", "ban" })

\* caps.has("inlinebuttons"), over cfg.telegram.capabilities and the
\* capabilities of every account of cfg.telegram.accounts.
hasTelegramInlineButtons(c) ==
    /\ c.telegram.present
    /\ \/ c.telegram.inlineButtons
       \/ \E i \in DOMAIN c.telegram.accounts :
             c.telegram.accounts[i].inlineButtons

\* The property names of MessageToolCommonSchema, all optional.
MessageToolCommonSchema ==
    { "provider", "media", "buttons", "messageId", "replyTo", "threadId",
      "accountId", "dryRun", "bestEffort", "gifPlayback", "emoji", "remove",
      "limit", "before", "after", "around", "pollQuestion", "pollOption",
      "pollDurationHours", "pollMulti", "channelId", "channelIds", "guildId",
      "userId", "authorId", "authorIds", "roleId", "roleIds", "emojiName",
      "stickerId", "stickerName", "stickerDesc", "stickerTags", "threadName",
      "autoArchiveMin", "query", "eventName", "eventType", "startTime",
      "endTime", "desc", "location", "durationMin", "until", "reason",
      "deleteDays", "includeArchived", "participant", "fromMe", "gatewayUrl",
      "gatewayToken", "timeoutMs" }

\* The second variant built from the whole list, "send" not filtered out.
buildMessageToolSchemaFromActionsUnfiltered(actions, includeButtons) ==
    LET props == IF includeButtons THEN MessageToolCommonSchema
                 ELSE MessageToolCommonSchema \ { "buttons" }
    IN  ( IF "send" \in actions
          THEN << [action |-> { "send" },
                   required |-> { "action", "to", "message" },
                   optional |-> props] >>
          ELSE << >> )
        \o << [action |-> actions, required |-> { "action" },
               optional |-> { "to", "message" } \cup props] >>

\* The advertised schema: the object variants of the union, in order; a
\* variant is the action literals it accepts and its required and optional
\* properties.
buildMessageToolSchemaFromActions(actions, includeButtons) ==
    LET props == IF includeButtons THEN MessageToolCommonSchema
                 ELSE MessageToolCommonSchema \ { "buttons" }
        nonSendActions == actions \ { "send" }
    IN  ( IF "send" \in actions
          THEN << [action |-> { "send" },
                   required |-> { "action", "to", "message" },
                   optional |-> props] >>
          ELSE << >> )
        \o
        ( IF nonSendActions # { }
          THEN << [action |-> nonSendActions, required |-> { "action" },
                   optional |-> { "to", "message" } \cup props] >>
          ELSE << >> )

buildMessageToolSchema(c) ==
    LET actions == buildMessageActionList(c)
        includeButtons == telegramEnabled(c) /\ hasTelegramInlineButtons(c)
    IN  [built |-> TRUE,
         actions |-> actions,
         includeButtons |-> includeButtons,
         variants |->
             buildMessageToolSchemaFromActions(actions, includeButtons)]

(***************************************************************************)
(* The configurations the model draws from.  One provider's section is     *)
(* drawn in full (any list of at most MaxAccounts accounts, and any        *)
(* setting of one capability key in each `actions` object); each other     *)
(* section is absent or plain: one enabled account with a credential and   *)
(* no explicit gate.                                                       *)
(***************************************************************************)
SeqsUpTo(S, n) == UNION { [1..m -> S] : m \in 0..n }

GatesFor(k) ==
    { NoGates, [NoGates EXCEPT ![k] = "true"], [NoGates EXCEPT ![k] = "false"] }

TokenSources == { "none", "config" }

DiscordAccount == [enabled : BOOLEAN, tokenSource : TokenSources]

SlackAccount(k) ==
    { a \in [enabled : BOOLEAN, tokenSource : TokenSources,
             hasActions : BOOLEAN, actions : GatesFor(k)] :
        ~a.hasActions => a.actions = NoGates }

TelegramAccount ==
    [enabled : BOOLEAN, tokenSource : TokenSources, inlineButtons : BOOLEAN]

WhatsAppAccount == [enabled : BOOLEAN]

NoDiscord == [present |-> FALSE, accounts |-> << >>, actions |-> NoGates]

NoSlack == [present |-> FALSE, accounts |-> << >>, actions |-> NoGates]

NoTelegram ==
    [present |-> FALSE, accounts |-> << >>, actions |-> NoGates,
     inlineButtons |-> FALSE]

NoWhatsApp == [present |-> FALSE, accounts |-> << >>, actions |-> NoGates]

NoMSTeams == [present |-> FALSE, enabled |-> "unset", credentials |-> FALSE]

PlainDiscord ==
    [present |-> TRUE,
     accounts |-> << [enabled |-> TRUE, tokenSource |-> "config"] >>,
     actions |-> NoGates]

PlainSlack ==
    [present |-> TRUE,
     accounts |-> << [enabled |-> TRUE, tokenSource |-> "config",
                      hasActions |-> FALSE, actions |-> NoGates] >>,
     actions |-> NoGates]

PlainTelegram ==
    [present |-> TRUE,
     accounts |-> << [enabled |-> TRUE, tokenSource |-> "config",
                      inlineButtons |-> FALSE] >>,
     actions |-> NoGates, inlineButtons |-> FALSE]

PlainWhatsApp ==
    [present |-> TRUE, accounts |-> << [enabled |-> TRUE] >>,
     actions |-> NoGates]

PlainMSTeams == [present |-> TRUE, enabled |-> "unset", credentials |-> TRUE]

\* For "emojiList" the discord section also sets "reactions", the key the
\* code consults for the discord side of emoji-list.
DiscordGatesFor(k) ==
    IF k = "emojiList"
    THEN { [NoGates EXCEPT !["emojiList"] = e, !["reactions"] = r] :
             e \in { "unset", "true", "false" },
             r \in { "unset", "true", "false" } }
    ELSE GatesFor(k)

DiscordSections(k) ==
    [present : { TRUE }, accounts : SeqsUpTo(DiscordAccount, MaxAccounts),
     actions : DiscordGatesFor(k)]

SlackSections(k) ==
    IF k \in SlackKeys
    THEN [present : { TRUE }, accounts : SeqsUpTo(SlackAccount(k), MaxAccounts),
          actions : GatesFor(k)]
    ELSE { }

TelegramSections(k) ==
    IF k \in { "reactions", "messages", "pins" }
    THEN [present : { TRUE }, accounts : SeqsUpTo(TelegramAccount, MaxAccounts),
          actions : GatesFor(k), inlineButtons : BOOLEAN]
    ELSE { }

WhatsAppSections(k) ==
    IF k \in { "reactions", "polls", "messages", "pins" }
    THEN [present : { TRUE }, accounts : SeqsUpTo(WhatsAppAccount, MaxAccounts),
          actions : GatesFor(k)]
    ELSE { }

MSTeamsSections ==
    [present : { TRUE }, enabled : { "unset", "true", "false" },
     credentials : BOOLEAN]

NoProviders ==
    [discord |-> NoDiscord, slack |-> NoSlack, telegram |-> NoTelegram,
     whatsapp |-> NoWhatsApp, msteams |-> NoMSTeams]

AllPlain ==
    [discord |-> PlainDiscord, slack |-> PlainSlack,
     telegram |-> PlainTelegram, whatsapp |-> PlainWhatsApp,
     msteams |-> PlainMSTeams]

\* What surrounds the section drawn in full: no other provider, one other
\* plain provider, or every other provider plain.
Backgrounds ==
    { NoProviders, AllPlain,
      [NoProviders EXCEPT !.discord = PlainDiscord],
      [NoProviders EXCEPT !.slack = PlainSlack],
      [NoProviders EXCEPT !.telegram = PlainTelegram],
      [NoProviders EXCEPT !.whatsapp = PlainWhatsApp],
      [NoProviders EXCEPT !.msteams = PlainMSTeams] }

ConfigsAround(b, k) ==
    [discord : DiscordSections(k), slack : { b.slack },
     telegram : { b.telegram }, whatsapp : { b.whatsapp },
     msteams : { b.msteams }]
    \cup
    [discord : { b.discord }, slack : SlackSections(k),
     telegram : { b.telegram }, whatsapp : { b.whatsapp },
     msteams : { b.msteams }]
    \cup
    [discord : { b.discord }, slack : { b.slack },
     telegram : TelegramSections(k), whatsapp : { b.whatsapp },
     msteams : { b.msteams }]
    \cup
    [discord : { b.discord }, slack : { b.slack }, telegram : { b.telegram },
     whatsapp : WhatsAppSections(k), msteams : { b.msteams }]
    \cup
    [discord : { b.discord }, slack : { b.slack }, telegram : { b.telegram },
     whatsapp : { b.whatsapp }, msteams : MSTeamsSections \cup { b.msteams }]

ConfigsFor(k) == UNION { ConfigsAround(b, k) : b \in Backgrounds }

Configs == UNION { ConfigsFor(k) : k \in GateKeys }

\* The configurations the calls of execute are run under.
RouterConfigs == { NoProviders, AllPlain }

NotBuilt ==
    [built |-> FALSE, actions |-> { }, includeButtons |-> FALSE,
     variants |-> << >>]

(***************************************************************************)
(* The parameter bag.  A value is one of four shapes: "ok" (a well-formed  *)
(* value of the kind the reader expects), "absent", "blank" (a string of   *)
(* white space only) and "wrong" (a value of another shape).               *)
(***************************************************************************)
Shapes == { "ok", "absent", "blank", "wrong" }

\* The fields the prelude of execute reads for every action.
CommonKeys == { "accountId", "gatewayUrl", "gatewayToken", "timeoutMs" }

\* What the model knows of a poll beyond the shapes of its fields: the raw
\* value of pollMulti and the length of the array under pollOption.
PollKeys == { "pollMulti", "pollOption.length" }

PollMultiValues == { "absent", "true", "false", "wrong" }

ParamKeys ==
    CommonKeys \cup PollKeys \cup
    { "action", "provider", "to", "message", "media", "replyTo", "threadId", "messageId", "emoji",
      "limit", "before", "after", "around", "pollQuestion", "pollOption",
      "pollDurationHours", "channelId", "chatId", "chatJid", "participant",
      "channelIds", "guildId", "userId", "authorId", "authorIds", "roleId",
      "roleIds", "emojiName", "stickerId", "stickerName", "stickerDesc",
      "stickerTags", "threadName", "autoArchiveMin", "query", "eventName",
      "eventType", "startTime", "endTime", "desc", "location", "durationMin",
      "until", "reason", "deleteDays" }

(***************************************************************************)
(* Parameter Extractor (agents/tools/common.ts, spec 4.1).  A read answers *)
(* [fail, err, has]: has says whether a value (not undefined) came back.   *)
(***************************************************************************)
ReadOk(has) == [fail |-> FALSE, err |-> "", has |-> has]

ReadFail(err) == [fail |-> TRUE, err |-> err, has |-> FALSE]

readStringParam(params, key, required, allowEmpty, trim) ==
    LET raw == params[key]
        missing == IF required THEN ReadFail("MissingRequiredParameter")
                   ELSE ReadOk(FALSE)
    IN  CASE raw = "absent" -> missing
          [] raw = "wrong"  -> ReadFail("InvalidParameterType")
          [] raw = "blank"  -> IF ~trim \/ allowEmpty THEN ReadOk(TRUE)
                               ELSE missing
          [] OTHER          -> ReadOk(TRUE)

readNumberParam(params, key, required) ==
    LET raw == params[key]
    IN  CASE raw = "absent" -> IF required
                               THEN ReadFail("MissingRequiredParameter")
                               ELSE ReadOk(FALSE)
          [] raw = "ok"     -> ReadOk(TRUE)
          [] OTHER          -> ReadFail("InvalidParameterType")

readStringArrayParam(params, key, required) ==
    LET raw == params[key]
    IN  CASE raw = "absent" -> IF required
                               THEN ReadFail("MissingRequiredParameter")
                               ELSE ReadOk(FALSE)
          [] raw = "ok"     -> ReadOk(TRUE)
          [] OTHER          -> ReadFail("InvalidParameterType")

(***************************************************************************)
(* One step of a branch of execute: a read of the extractor, a call of a   *)
(* dispatch collaborator, or a throw.                                      *)
(***************************************************************************)
Rd(key, kind, required, allowEmpty, trim) ==
    [op |-> "read", key |-> key, kind |-> kind, required |-> required,
     allowEmpty |-> allowEmpty, trim |-> trim, acct |-> FALSE, dry |-> FALSE,
     ctx |-> FALSE, maxSelections |-> 0]

Str(key) == Rd(key, "string", FALSE, FALSE, TRUE)

StrReq(key) == Rd(key, "string", TRUE, FALSE, TRUE)

Num(key) == Rd(key, "number", FALSE, FALSE, TRUE)

Arr(key) == Rd(key, "array", FALSE, FALSE, TRUE)

ArrReq(key) == Rd(key, "array", TRUE, FALSE, TRUE)

\* fn(request): kind is the request's own action name, acct whether the
\* request carries accountId, dry the dryRun flag it carries, ctx whether
\* the caller's threading context (with options.hasRepliedRef) is handed
\* over with it, maxSelections what a poll request carries under that name.
Invoke(fn, native, acct, dry) ==
    [op |-> "call", key |-> fn, kind |-> native, required |-> FALSE,
     allowEmpty |-> FALSE, trim |-> FALSE, acct |-> acct, dry |-> dry,
     ctx |-> FALSE, maxSelections |-> 0]

\* fn(request, cfg, context): the call is given the caller's context.
WithContext(call) == [call EXCEPT !.ctx = TRUE]

Throw(err) ==
    [op |-> "throw", key |-> err, kind |-> "", required |-> FALSE,
     allowEmpty |-> FALSE, trim |-> FALSE, acct |-> FALSE, dry |-> FALSE,
     ctx |-> FALSE, maxSelections |-> 0]

ReadOf(params, o) ==
    CASE o.kind = "number" -> readNumberParam(params, o.key, o.required)
      [] o.kind = "array"  -> readStringArrayParam(params, o.key, o.required)
      [] OTHER -> readStringParam(params, o.key, o.required, o.allowEmpty,
                                  o.trim)

\* Whether an optional string read of key answers a value.
Has(params, key) == readStringParam(params, key, FALSE, FALSE, TRUE).has

(***************************************************************************)
(* The branches of execute, one per action, as the steps each takes in     *)
(* source order for a resolved provider prov, the flag dryRun and the bag  *)
(* P.  A step is reached only if every read before it succeeded.           *)
(***************************************************************************)
\* readStringParam(params, label) ?? readStringParam(params, "to", required)
resolveChannelId(P, label) ==
    IF Has(P, label) THEN << Str(label) >>
    ELSE << Str(label), StrReq("to") >>

resolveChatId(P, label) ==
    IF Has(P, label) THEN << Str(label) >>
    ELSE << Str(label), StrReq("to") >>

Unsupported == << Throw("UnsupportedActionForProvider") >>

\* sendBranch with the dryRun test placed after the provider-specific sends.
sendBranchDryRunLast(prov, dryRun, P) ==
    << StrReq("to"), Rd("message", "string", TRUE, TRUE, TRUE),
       Rd("media", "string", FALSE, FALSE, FALSE), Str("replyTo"),
       Str("threadId") >> \o
    ( CASE prov = "discord" ->
             << Invoke("handleDiscordAction", "sendMessage", FALSE, FALSE) >>
        [] prov = "slack" ->
             << WithContext(Invoke("handleSlackAction", "sendMessage", TRUE,
                                   FALSE)) >>
        [] prov = "telegram" ->
             << Invoke("handleTelegramAction", "sendMessage", TRUE, FALSE) >>
        [] OTHER -> << Invoke("sendMessage", "send", TRUE, dryRun) >> )

\* whatsapp is sent through its own handler, like its reactions.
sendBranchWhatsAppHandler(prov, dryRun, P) ==
    << StrReq("to"), Rd("message", "string", TRUE, TRUE, TRUE),
       Rd("media", "string", FALSE, FALSE, FALSE), Str("replyTo"),
       Str("threadId") >> \o
    ( IF dryRun THEN << Invoke("sendMessage", "send", TRUE, TRUE) >>
      ELSE CASE prov = "discord" ->
                  << Invoke("handleDiscordAction", "sendMessage", FALSE, FALSE) >>
             [] prov = "slack" ->
                  << WithContext(Invoke("handleSlackAction", "sendMessage",
                                        TRUE, FALSE)) >>
             [] prov = "telegram" ->
                  << Invoke("handleTelegramAction", "sendMessage", TRUE, FALSE) >>
             [] prov = "whatsapp" ->
                  << Invoke("handleWhatsAppAction", "sendMessage", TRUE, FALSE) >>
             [] OTHER -> << Invoke("sendMessage", "send", TRUE, FALSE) >> )

\* The caller's context is handed to the telegram handler as well.
sendBranchContextToTelegram(prov, dryRun, P) ==
    << StrReq("to"), Rd("message", "string", TRUE, TRUE, TRUE),
       Rd("media", "string", FALSE, FALSE, FALSE), Str("replyTo"),
       Str("threadId") >> \o
    ( IF dryRun THEN << Invoke("sendMessage", "send", TRUE, TRUE) >>
      ELSE CASE prov = "discord" ->
                  << Invoke("handleDiscordAction", "sendMessage", FALSE, FALSE) >>
             [] prov = "slack" ->
                  << WithContext(Invoke("handleSlackAction", "sendMessage",
                                        TRUE, FALSE)) >>
             [] prov = "telegram" ->
                  << WithContext(Invoke("handleTelegramAction", "sendMessage",
                                        TRUE, FALSE)) >>
             [] OTHER -> << Invoke("sendMessage", "send", TRUE, FALSE) >> )

sendBranch(prov, dryRun, P) ==
    << StrReq("to"), Rd("message", "string", TRUE, TRUE, TRUE),
       Rd("media", "string", FALSE, FALSE, FALSE), Str("replyTo"),
       Str("threadId") >> \o
    ( IF dryRun THEN << Invoke("sendMessage", "send", TRUE, TRUE) >>
      ELSE CASE prov = "discord" ->
                  << Invoke("handleDiscordAction", "sendMessage", FALSE, FALSE) >>
             [] prov = "slack" ->
                  << WithContext(Invoke("handleSlackAction", "sendMessage",
                                        TRUE, FALSE)) >>
             [] prov = "telegram" ->
                  << Invoke("handleTelegramAction", "sendMessage", TRUE, FALSE) >>
             [] OTHER -> << Invoke("sendMessage", "send", TRUE, FALSE) >> )

Max(a, b) == IF a >= b THEN a ELSE b

\* allowMultiselect ? Math.max(2, options.length) : 1, where allowMultiselect
\* is params.pollMulti if that is a boolean and undefined otherwise.
maxSelections(P) ==
    LET allowMultiselect == P["pollMulti"] = "true"
    IN  IF allowMultiselect THEN Max(2, P["pollOption.length"]) ELSE 1

\* sendPoll({..., maxSelections, ..., dryRun, gateway})
InvokePoll(P, dry) ==
    [Invoke("sendPoll", "poll", FALSE, dry) EXCEPT
        !.maxSelections = maxSelections(P)]

\* Providers without polls of their own are turned away.
pollBranchUnsupported(prov, dryRun, P) ==
    << StrReq("to"), StrReq("pollQuestion"), ArrReq("pollOption"),
       Num("pollDurationHours") >> \o
    ( IF dryRun THEN << InvokePoll(P, TRUE) >>
      ELSE CASE prov = "discord" ->
                  << Str("message"),
                     Invoke("handleDiscordAction", "poll", FALSE, FALSE) >>
             [] prov \in { "whatsapp", "msteams" } ->
                  << InvokePoll(P, FALSE) >>
             [] OTHER -> Unsupported )

\* maxSelections is the number of options whenever several may be chosen.
pollBranchNoFloor(prov, dryRun, P) ==
    << StrReq("to"), StrReq("pollQuestion"), ArrReq("pollOption"),
       Num("pollDurationHours") >> \o
    ( IF dryRun
      THEN << [InvokePoll(P, TRUE) EXCEPT
                  !.maxSelections = IF P["pollMulti"] = "true"
                                    THEN P["pollOption.length"] ELSE 1] >>
      ELSE IF prov = "discord"
           THEN << Str("message"),
                   Invoke("handleDiscordAction", "poll", FALSE, FALSE) >>
           ELSE << [InvokePoll(P, FALSE) EXCEPT
                       !.maxSelections = IF P["pollMulti"] = "true"
                                         THEN P["pollOption.length"]
                                         ELSE 1] >> )

pollBranch(prov, dryRun, P) ==
    << StrReq("to"), StrReq("pollQuestion"), ArrReq("pollOption"),
       Num("pollDurationHours") >> \o
    ( IF dryRun THEN << InvokePoll(P, TRUE) >>
      ELSE IF prov = "discord"
           THEN << Str("message"),
                   Invoke("handleDiscordAction", "poll", FALSE, FALSE) >>
           ELSE << InvokePoll(P, FALSE) >> )

\* The react branch without its telegram arm.
reactBranchNoTelegram(prov, dryRun, P) ==
    << StrReq("messageId"), Rd("emoji", "string", FALSE, TRUE, TRUE) >> \o
    ( CASE prov = "discord" ->
             resolveChannelId(P, "channelId") \o
             << Invoke("handleDiscordAction", "react", FALSE, FALSE) >>
        [] prov = "slack" ->
             resolveChannelId(P, "channelId") \o
             << Invoke("handleSlackAction", "react", TRUE, FALSE) >>
        [] prov = "whatsapp" ->
             resolveChatId(P, "chatJid") \o
             << Str("participant"),
                Invoke("handleWhatsAppAction", "react", TRUE, FALSE) >>
        [] OTHER -> Unsupported )

reactBranch(prov, dryRun, P) ==
    << StrReq("messageId"), Rd("emoji", "string", FALSE, TRUE, TRUE) >> \o
    ( CASE prov = "discord" ->
             resolveChannelId(P, "channelId") \o
             << Invoke("handleDiscordAction", "react", FALSE, FALSE) >>
        [] prov = "slack" ->
             resolveChannelId(P, "channelId") \o
             << Invoke("handleSlackAction", "react", TRUE, FALSE) >>
        [] prov = "telegram" ->
             resolveChatId(P, "chatId") \o
             << Invoke("handleTelegramAction", "react", TRUE, FALSE) >>
        [] prov = "whatsapp" ->
             resolveChatId(P, "chatJid") \o
             << Str("participant"),
                Invoke("handleWhatsAppAction", "react", TRUE, FALSE) >>
        [] OTHER -> Unsupported )

\* The tail shared by the branches that serve discord and slack alike:
\* resolveChannelId("channelId") in the request literal, then the handler.
DiscordOrSlack(prov, P, native) ==
    CASE prov = "discord" ->
           resolveChannelId(P, "channelId") \o
           << Invoke("handleDiscordAction", native, FALSE, FALSE) >>
      [] prov = "slack" ->
           resolveChannelId(P, "channelId") \o
           << Invoke("handleSlackAction", native, TRUE, FALSE) >>
      [] OTHER -> Unsupported

reactionsBranch(prov, dryRun, P) ==
    << StrReq("messageId"), Num("limit") >> \o
    DiscordOrSlack(prov, P, "reactions")

readBranch(prov, dryRun, P) ==
    << Num("limit"), Str("before"), Str("after"), Str("around") >> \o
    DiscordOrSlack(prov, P, "readMessages")

editBranch(prov, dryRun, P) ==
    << StrReq("messageId"), StrReq("message") >> \o
    DiscordOrSlack(prov, P, "editMessage")

deleteBranch(prov, dryRun, P) ==
    << StrReq("messageId") >> \o DiscordOrSlack(prov, P, "deleteMessage")

pinBranch(action, prov, dryRun, P) ==
    LET native == CASE action = "pin" -> "pinMessage"
                    [] action = "unpin" -> "unpinMessage"
                    [] OTHER -> "listPins"
    IN  ( IF action = "list-pins" THEN << >> ELSE << StrReq("messageId") >> )
        \o resolveChannelId(P, "channelId") \o
        ( CASE prov = "discord" ->
                 << Invoke("handleDiscordAction", native, FALSE, FALSE) >>
            [] prov = "slack" ->
                 << Invoke("handleSlackAction", native, TRUE, FALSE) >>
            [] OTHER -> Unsupported )

\* The branches of the actions only discord serves test the provider first.
DiscordOnly(prov, steps) == IF prov # "discord" THEN Unsupported ELSE steps

Discord(native) == << Invoke("handleDiscordAction", native, FALSE, FALSE) >>

\* permissionsBranch with the channel resolved before the provider test.
permissionsBranchReadFirst(prov, dryRun, P) ==
    resolveChannelId(P, "channelId") \o
    ( IF prov # "discord" THEN Unsupported ELSE Discord("permissions") )

permissionsBranch(prov, dryRun, P) ==
    DiscordOnly(prov,
        resolveChannelId(P, "channelId") \o Discord("permissions"))

threadCreateBranch(prov, dryRun, P) ==
    DiscordOnly(prov,
        << StrReq("threadName"), Str("messageId"), Num("autoArchiveMin") >>
        \o resolveChannelId(P, "channelId") \o Discord("threadCreate"))

threadListBranch(prov, dryRun, P) ==
    DiscordOnly(prov,
        << StrReq("guildId"), Str("channelId"), Str("before"), Num("limit") >>
        \o Discord("threadList"))

threadReplyBranch(prov, dryRun, P) ==
    DiscordOnly(prov,
        << StrReq("message"), Rd("media", "string", FALSE, FALSE, FALSE),
           Str("replyTo") >>
        \o resolveChannelId(P, "channelId") \o Discord("threadReply"))

searchBranch(prov, dryRun, P) ==
    DiscordOnly(prov,
        << StrReq("guildId"), StrReq("query"), Str("channelId"),
           Arr("channelIds"), Str("authorId"), Arr("authorIds"),
           Num("limit") >> \o Discord("searchMessages"))

\* stickerBranch with the target read only once the sticker is sent.
stickerBranchLateTarget(prov, dryRun, P) ==
    DiscordOnly(prov,
        << ArrReq("stickerId"), Str("message") >> \o Discord("sticker")
        \o << StrReq("to") >>)

stickerBranch(prov, dryRun, P) ==
    DiscordOnly(prov,
        << ArrReq("stickerId"), Str("message"), StrReq("to") >>
        \o Discord("sticker"))

memberInfoBranch(prov, dryRun, P) ==
    << StrReq("userId") >> \o
    ( CASE prov = "discord" -> << StrReq("guildId") >> \o Discord("memberInfo")
        [] prov = "slack" ->
             << Invoke("handleSlackAction", "memberInfo", TRUE, FALSE) >>
        [] OTHER -> Unsupported )

roleInfoBranch(prov, dryRun, P) ==
    DiscordOnly(prov, << StrReq("guildId") >> \o Discord("roleInfo"))

emojiListBranch(prov, dryRun, P) ==
    CASE prov = "discord" -> << StrReq("guildId") >> \o Discord("emojiList")
      [] prov = "slack" ->
           << Invoke("handleSlackAction", "emojiList", TRUE, FALSE) >>
      [] OTHER -> Unsupported

emojiUploadBranch(prov, dryRun, P) ==
    DiscordOnly(prov,
        << StrReq("guildId"), StrReq("emojiName"),
           Rd("media", "string", TRUE, FALSE, FALSE), Arr("roleIds") >>
        \o Discord("emojiUpload"))

stickerUploadBranch(prov, dryRun, P) ==
    DiscordOnly(prov,
        << StrReq("guildId"), StrReq("stickerName"), StrReq("stickerDesc"),
           StrReq("stickerTags"), Rd("media", "string", TRUE, FALSE, FALSE) >>
        \o Discord("stickerUpload"))

roleChangeBranch(action, prov, dryRun, P) ==
    DiscordOnly(prov,
        << StrReq("guildId"), StrReq("userId"), StrReq("roleId") >>
        \o Discord(IF action = "role-add" THEN "roleAdd" ELSE "roleRemove"))

channelInfoBranch(prov, dryRun, P) ==
    DiscordOnly(prov, << StrReq("channelId") >> \o Discord("channelInfo"))

channelListBranch(prov, dryRun, P) ==
    DiscordOnly(prov, << StrReq("guildId") >> \o Discord("channelList"))

voiceStatusBranch(prov, dryRun, P) ==
    DiscordOnly(prov,
        << StrReq("guildId"), StrReq("userId") >> \o Discord("voiceStatus"))

eventListBranch(prov, dryRun, P) ==
    DiscordOnly(prov, << StrReq("guildId") >> \o Discord("eventList"))

eventCreateBranch(prov, dryRun, P) ==
    DiscordOnly(prov,
        << StrReq("guildId"), StrReq("eventName"), StrReq("startTime"),
           Str("endTime"), Str("desc"), Str("channelId"), Str("location"),
           Str("eventType") >> \o Discord("eventCreate"))

\* The chain tests for "timeout" and "kick" only: "ban" runs off its end.
moderationBranchWithoutBan(action, prov, dryRun, P) ==
    IF action = "ban"
    THEN << Throw("UnknownAction") >>
    ELSE DiscordOnly(prov,
            << StrReq("guildId"), StrReq("userId"), Num("durationMin"),
               Str("until"), Str("reason"), Num("deleteDays") >>
            \o Discord(action))

moderationBranch(action, prov, dryRun, P) ==
    DiscordOnly(prov,
        << StrReq("guildId"), StrReq("userId"), Num("durationMin"),
           Str("until"), Str("reason"), Num("deleteDays") >>
        \o Discord(action))

\* The chain of `if (action === ...)` of execute, ending in the throw of
\* "Unknown action".
Branch(action, prov, dryRun, P) ==
    CASE action = "send" -> sendBranch(prov, dryRun, P)
      [] action = "poll" -> pollBranch(prov, dryRun, P)
      [] action = "react" -> reactBranch(prov, dryRun, P)
      [] action = "reactions" -> reactionsBranch(prov, dryRun, P)
      [] action = "read" -> readBranch(prov, dryRun, P)
      [] action = "edit" -> editBranch(prov, dryRun, P)
      [] action = "delete" -> deleteBranch(prov, dryRun, P)
      [] action \in { "pin", "unpin", "list-pins" } ->
           pinBranch(action, prov, dryRun, P)
      [] action = "permissions" -> permissionsBranch(prov, dryRun, P)
      [] action = "thread-create" -> threadCreateBranch(prov, dryRun, P)
      [] action = "thread-list" -> threadListBranch(prov, dryRun, P)
      [] action = "thread-reply" -> threadReplyBranch(prov, dryRun, P)
      [] action = "search" -> searchBranch(prov, dryRun, P)
      [] action = "sticker" -> stickerBranch(prov, dryRun, P)
      [] action = "member-info" -> memberInfoBranch(prov, dryRun, P)
      [] action = "role-info" -> roleInfoBranch(prov, dryRun, P)
      [] action = "emoji-list" -> emojiListBranch(prov, dryRun, P)
      [] action = "emoji-upload" -> emojiUploadBranch(prov, dryRun, P)
      [] action = "sticker-upload" -> stickerUploadBranch(prov, dryRun, P)
      [] action \in { "role-add", "role-remove" } ->
           roleChangeBranch(action, prov, dryRun, P)
      [] action = "channel-info" -> channelInfoBranch(prov, dryRun, P)
      [] action = "channel-list" -> channelListBranch(prov, dryRun, P)
      [] action = "voice-status" -> voiceStatusBranch(prov, dryRun, P)
      [] action = "event-list" -> eventListBranch(prov, dryRun, P)
      [] action = "event-create" -> eventCreateBranch(prov, dryRun, P)
      [] action \in { "timeout", "kick", "ban" } ->
           moderationBranch(action, prov, dryRun, P)
      [] OTHER -> << Throw("UnknownAction") >>

(***************************************************************************)
(* Running a sequence of steps against the bag P: the reads and the call   *)
(* made are appended to done; the run ends at the first read that fails,   *)
(* at a throw, or at the call of a collaborator (an await), with rest the  *)
(* steps that follow the call.                                             *)
(***************************************************************************)
RECURSIVE Steps(_, _, _)
Steps(ops, P, done) ==
    IF ops = << >>
    THEN [log |-> done, status |-> "returned", err |-> "", key |-> "",
          rest |-> << >>]
    ELSE LET o == Head(ops)
         IN  CASE o.op = "read" ->
                    IF ReadOf(P, o).fail
                    THEN [log |-> Append(done, o), status |-> "failed",
                          err |-> ReadOf(P, o).err, key |-> o.key,
                          rest |-> << >>]
                    ELSE Steps(Tail(ops), P, Append(done, o))
               [] o.op = "call" ->
                    [log |-> Append(done, o), status |-> "dispatched",
                     err |-> "", key |-> o.key, rest |-> Tail(ops)]
               [] OTHER ->
                    [log |-> done, status |-> "failed", err |-> o.key,
                     key |-> "", rest |-> << >>]

\* const dryRun = Boolean(params.dryRun)
DryRunValues == { "absent", "true", "false" }

Boolean(raw) == raw = "true"

\* execute up to its first await: the action is read (required), then the
\* provider override, and resolveMessageProviderSelection is called.
Prelude ==
    << StrReq("action"), Str("provider"),
       Invoke("resolveMessageProviderSelection", "", FALSE, FALSE) >>

\* execute from the resolution's answer to the branch of the action.
AfterResolution ==
    << Str("accountId"), Rd("gatewayUrl", "string", FALSE, FALSE, FALSE),
       Rd("gatewayToken", "string", FALSE, FALSE, FALSE), Num("timeoutMs") >>

(***************************************************************************)
(* The calls the model makes.  A bag is complete and well formed but for   *)
(* at most MaxDeviations of the fields that steer the action's branch: the *)
(* fields some path requires, the fields `to` stands in for, and           *)
(* accountId.                                                              *)
(***************************************************************************)
ReadKeys(ops) == { ops[i].key : i \in { j \in DOMAIN ops : ops[j].op = "read" } }

BranchKeys(action) ==
    UNION { ReadKeys(Branch(action, p, d, [k \in ParamKeys |-> s])) :
            p \in Providers, d \in BOOLEAN, s \in { "ok", "absent" } }

RequiredKeys(ops) ==
    { ops[i].key :
        i \in { j \in DOMAIN ops : ops[j].op = "read" /\ ops[j].required } }

ControlKeys(action) ==
    UNION { RequiredKeys(Branch(action, p, d, [k \in ParamKeys |-> s])) :
            p \in Providers, d \in BOOLEAN, s \in { "ok", "absent" } }
    \cup (BranchKeys(action) \cap { "channelId", "chatId", "chatJid" })
    \cup { "accountId" }

Deviations(keys) ==
    UNION { [D -> Shapes \ { "ok" }] :
            D \in { S \in SUBSET keys : Cardinality(S) <= MaxDeviations } }

Bag(action, pv, dev) ==
    [k \in ParamKeys |->
        CASE k = "action" -> IF action = "absent" THEN "absent" ELSE "ok"
          [] k = "provider" -> IF pv = "absent" THEN "absent" ELSE "ok"
          [] k \in DOMAIN dev -> dev[k]
          [] k = "pollMulti" -> "absent"
          [] OTHER -> "ok"]

\* The polls the model asks for: pollMulti a boolean, absent or something
\* else, and one to MaxPollOptions options; a poll that deviates in some
\* other field has pollMulti absent and one option.
PollInputs(action, dev) ==
    IF action = "poll"
    THEN { [k \in PollKeys |-> IF k = "pollMulti" THEN m ELSE n] :
           m \in IF dev = << >> THEN PollMultiValues ELSE { "absent" },
           n \in IF dev = << >> THEN 1..MaxPollOptions ELSE { 1 } }
    ELSE { << >> }

ActionNames == KnownActions \cup { "bogus", "absent" }

NoOutcome == [status |-> "pending", err |-> "", key |-> "", cause |-> ""]

\* The sessions' flag instances; the tool was made with options.hasRepliedRef
\* the flag of the session it serves.
FlagInstances == { "a", "b" }

ToolFlag == "a"

\* The router keeps one flag of its own and hands that one to every call.
FlagHandedRouterOwned(inst) == "a"

\* hasRepliedRef: options?.hasRepliedRef -- the instance the handler is
\* handed is the one the tool was made with.
FlagHanded(inst) == inst

\* What a handler that was handed the flag instance inst may leave in it: it
\* marks the reply as sent or leaves the flag as it is.  A handler that was
\* handed nothing cannot touch it.
FlagsAfter(call, inst, flags) ==
    IF call.ctx THEN { flags, [flags EXCEPT ![inst] = TRUE] } ELSE { flags }

\* Where a run of steps leaves execute: awaiting a collaborator, returned
\* (the collaborator's result is the result) or failed.
Settled(r) ==
    [log |-> r.log,
     rest |-> r.rest,
     pc |-> IF r.status = "dispatched" THEN "awaiting" ELSE "done",
     outcome |-> CASE r.status = "failed" ->
                        [status |-> "failed", err |-> r.err, key |-> r.key,
                         cause |-> ""]
                   [] r.status = "returned" ->
                        [status |-> "ok", err |-> "", key |-> "",
                         cause |-> ""]
                   [] OTHER -> NoOutcome]

Settle(r) ==
    /\ log' = Settled(r).log
    /\ rest' = Settled(r).rest
    /\ pc' = Settled(r).pc
    /\ outcome' = Settled(r).outcome

\* execute(_toolCallId, args), to the await of the provider resolution.
Execute(action, pv, dry, dev) ==
    /\ pc = "idle"
    /\ req' = [action |-> action, provider |-> pv, dryRun |-> dry,
               params |-> Bag(action, pv, dev)]
    /\ provider' = ""
    /\ Settle(Steps(Prelude, Bag(action, pv, dev), << >>))
    /\ UNCHANGED <<agent, calls, cfg, schema, hasRepliedRef>>

Awaited == log[Len(log)].key

\* The resolution answers p: an explicit override is what it answers.
\* execute goes on to the collaborator call of the action's branch, or to
\* the first error.
ResolveReturns(p) ==
    /\ pc = "awaiting"
    /\ Awaited = "resolveMessageProviderSelection"
    /\ req.provider # "absent" => p = req.provider
    /\ provider' = p
    /\ Settle(Steps(AfterResolution \o
                    Branch(req.action, p, Boolean(req.dryRun), req.params),
                    req.params, log))
    /\ UNCHANGED <<agent, calls, cfg, schema, hasRepliedRef, req>>

\* What a dispatch collaborator may reject with.
DownstreamErrors == { "timeout", "rejected" }

Raise(e) ==
    [op |-> "raise", key |-> e, kind |-> "", required |-> FALSE,
     allowEmpty |-> FALSE, trim |-> FALSE, acct |-> FALSE, dry |-> FALSE,
     ctx |-> FALSE, maxSelections |-> 0]

\* The resolution can fail when the call names no provider (and there is no
\* single provider to fall back on).
ResolutionAmbiguous(r) == r.provider = "absent"

\* The rejection is swallowed and execute goes on with a provider of its own
\* choosing.
ResolveThrowsDefault ==
    /\ pc = "awaiting"
    /\ Awaited = "resolveMessageProviderSelection"
    /\ ResolutionAmbiguous(req)
    /\ provider' = "whatsapp"
    /\ Settle(Steps(AfterResolution \o
                    Branch(req.action, "whatsapp", Boolean(req.dryRun),
                           req.params),
                    req.params, Append(log, Raise("ProviderResolutionFailure"))))
    /\ UNCHANGED <<agent, calls, cfg, schema, hasRepliedRef, req>>

\* The awaited resolution rejects: nothing in execute catches it, so the
\* rejection is the rejection of execute; no provider is chosen and nothing
\* of execute runs after it.
ResolveThrows ==
    /\ pc = "awaiting"
    /\ Awaited = "resolveMessageProviderSelection"
    /\ ResolutionAmbiguous(req)
    /\ log' = Append(log, Raise("ProviderResolutionFailure"))
    /\ pc' = "done"
    /\ rest' = << >>
    /\ outcome' = [status |-> "failed", err |-> "ProviderResolutionFailure",
                   key |-> "", cause |-> ""]
    /\ UNCHANGED <<agent, calls, cfg, schema, hasRepliedRef, req, provider>>

\* The awaited dispatch collaborator answers: execute runs what is left of
\* the branch, which is to return the result.
CollaboratorReturns ==
    /\ pc = "awaiting"
    /\ Awaited \in Dispatchers
    /\ Settle(Steps(rest, req.params, log))
    /\ hasRepliedRef' \in FlagsAfter(log[Len(log)], FlagHanded(ToolFlag),
                                  hasRepliedRef)
    /\ UNCHANGED <<agent, calls, cfg, schema, req, provider>>

\* The rejection is caught and the same collaborator is called again.
CollaboratorThrowsRetry(e) ==
    /\ pc = "awaiting"
    /\ Awaited \in Dispatchers
    /\ log' = log \o << Raise(e), log[Len(log)] >>
    /\ UNCHANGED <<agent, calls, cfg, schema, hasRepliedRef, req, provider, pc, rest, outcome>>

\* The awaited dispatch collaborator rejects with e: nothing in execute
\* catches it, so the rejection is the rejection of execute and nothing of
\* the branch runs after it.
CollaboratorThrows(e) ==
    /\ pc = "awaiting"
    /\ Awaited \in Dispatchers
    /\ log' = Append(log, Raise(e))
    /\ pc' = "done"
    /\ rest' = << >>
    /\ outcome' = [status |-> "failed", err |-> "DownstreamProviderError",
                   key |-> Awaited, cause |-> e]
    /\ hasRepliedRef' \in FlagsAfter(log[Len(log)], FlagHanded(ToolFlag),
                                  hasRepliedRef)
    /\ UNCHANGED <<agent, calls, cfg, schema, req, provider>>

\* The promise of execute is settled; the tool is ready for its next call.
Return ==
    /\ pc = "done"
    /\ pc' = "idle"
    /\ req' = [action |-> "absent", provider |-> "absent",
               dryRun |-> "absent", params |-> Bag("absent", "absent", << >>)]
    /\ provider' = ""
    /\ log' = << >>
    /\ rest' = << >>
    /\ outcome' = NoOutcome
    /\ UNCHANGED <<agent, calls, cfg, schema, hasRepliedRef>>

NoRequest ==
    [action |-> "absent", provider |-> "absent", dryRun |-> "absent",
     params |-> Bag("absent", "absent", << >>)]

\* createMessageTool(options): the schema is built from options.config.
createMessageTool ==
    /\ ~schema.built
    /\ schema' = buildMessageToolSchema(cfg)
    /\ UNCHANGED <<agent, calls, cfg, req, pc, provider, log, rest, outcome,
                   hasRepliedRef>>

\* The two invocations: each is made through a tool that was given the flag
\* of its session, and has its own arguments and its own local values.
Invocations == { "x", "y" }

NoCall(f) ==
    [req |-> NoRequest, flag |-> f, flag0 |-> FALSE, pc |-> "idle",
     provider |-> "", log |-> << >>, rest |-> << >>, outcome |-> NoOutcome,
     saw |-> "none"]

(***************************************************************************)
(* Model alias defaults (config/defaults.ts, known by its tests).  The     *)
(* aliases are a function from alias names to model names.                 *)
(***************************************************************************)
DEFAULT_MODEL_ALIASES ==
    ("opus" :> "anthropic/claude-opus-4-5")
    @@ ("sonnet" :> "anthropic/claude-sonnet-4-5")
    @@ ("gpt" :> "openai/gpt-5.2")
    @@ ("gpt-mini" :> "openai/gpt-5-mini")
    @@ ("gemini" :> "google/gemini-3-pro-preview")
    @@ ("gemini-flash" :> "google/gemini-3-flash-preview")

\* The alias names the configurations of the model use: the defaults, two of
\* them in another casing, and one that is no default.
AliasKeys == DOMAIN DEFAULT_MODEL_ALIASES \cup { "Opus", "GPT", "fast" }

\* The model names they are given: "" disables an alias.
AliasValues ==
    { "", "anthropic/claude-opus-4-5", "openai/gpt-5.2", "openai/gpt-4.1",
      "openai/gpt-4.1-mini" }

\* An alias name with its casing normalized.
normalizeAliasKey(k) ==
    CASE k = "Opus" -> "opus"
      [] k = "GPT"  -> "gpt"
      [] OTHER      -> k

\* The defaults are laid over the configured aliases.
applyModelAliasDefaultsOverwrite(aliases) ==
    DEFAULT_MODEL_ALIASES @@ aliases

\* A default shorthand no configured alias matches is added; a configured
\* alias that matches one in another casing and has its target is renamed
\* to it; every other configured alias stays as it is.
applyModelAliasDefaults(aliases) ==
    LET Matches(k) ==
            { e \in DOMAIN aliases : normalizeAliasKey(e) = k }
        renamed ==
            { e \in DOMAIN aliases :
                \E k \in DOMAIN DEFAULT_MODEL_ALIASES :
                   /\ e \in Matches(k) /\ e # k
                   /\ aliases[e] = DEFAULT_MODEL_ALIASES[k] }
        added ==
            { k \in DOMAIN DEFAULT_MODEL_ALIASES : Matches(k) \subseteq renamed }
    IN  [k \in (DOMAIN aliases \ renamed) \cup added |->
            IF k \in added THEN DEFAULT_MODEL_ALIASES[k] ELSE aliases[k]]

\* The configurations: at most MaxAliases aliases, no name in two casings.
AliasConfigs ==
    UNION { [D -> AliasValues] :
            D \in { S \in SUBSET AliasKeys :
                      /\ Cardinality(S) <= MaxAliases
                      /\ \A a, b \in S :
                            normalizeAliasKey(a) = normalizeAliasKey(b)
                            => a = b } }

NoAgent == [modelAliases |-> << >>, next |-> << >>, applied |-> FALSE]

\* const next = applyModelAliasDefaults(cfg)
ApplyDefaults ==
    /\ ~agent.applied
    /\ agent' = [agent EXCEPT
                    !.next = applyModelAliasDefaults(agent.modelAliases),
                    !.applied = TRUE]
    /\ UNCHANGED <<cfg, schema, req, pc, provider, log, rest, outcome,
                   hasRepliedRef, calls>>

InitAliases ==
    /\ cfg = NoProviders
    /\ schema = NotBuilt
    /\ req = NoRequest
    /\ pc = "idle"
    /\ provider = ""
    /\ log = << >>
    /\ rest = << >>
    /\ outcome = NoOutcome
    /\ hasRepliedRef = [f \in FlagInstances |-> FALSE]
    /\ calls = [i \in Invocations |-> NoCall(ToolFlag)]
    /\ \E a \in AliasConfigs :
          agent = [modelAliases |-> a, next |-> << >>, applied |-> FALSE]

NextAliases == ApplyDefaults

SpecAliases == InitAliases /\ [][NextAliases]_vars

InitWith(configs) ==
    /\ cfg \in configs
    /\ schema = NotBuilt
    /\ req = NoRequest
    /\ pc = "idle"
    /\ provider = ""
    /\ log = << >>
    /\ rest = << >>
    /\ outcome = NoOutcome
    /\ hasRepliedRef = [f \in FlagInstances |-> FALSE]
    /\ calls = [i \in Invocations |-> NoCall(ToolFlag)]
    /\ agent = NoAgent

\* The agent calls the tool with some arguments.
Call ==
    /\ pc = "idle"
    /\ schema.built
    /\ \E action \in ActionNames, pv \in Providers \cup { "absent" },
          dry \in DryRunValues :
          \E dev \in Deviations(ControlKeys(action)) :
             \E poll \in PollInputs(action, dev) :
                Execute(action, pv, dry, dev @@ poll)

Init == InitWith(RouterConfigs)

Next ==
    \/ createMessageTool
    \/ Call
    \/ \E p \in Providers : ResolveReturns(p)
    \/ ResolveThrows
    \/ CollaboratorReturns
    \/ \E e \in DownstreamErrors : CollaboratorThrows(e)
    \/ Return

Spec == Init /\ [][Next]_vars

(***************************************************************************)
(* Two invocations of execute in flight together.  Each runs the steps of  *)
(* execute on its own arguments; the flag of its session is all it shares  *)
(* with anything, and only through the slack handler.                      *)
(***************************************************************************)
ConcurrentActions == { "send", "react", "poll" }

ConcurrentProviders == { "slack", "telegram" }

SawOf(b) == IF b THEN "set" ELSE "clear"

\* What the handler that was handed the flag instance inst finds in it.
Seen(call, inst, flags) == IF call.ctx THEN SawOf(flags[inst]) ELSE "none"

\* execute(_toolCallId, args) of invocation i, to the await of the resolution.
InvocationBegins(i, action, pv, dry) ==
    LET P == Bag(action, pv, << >>)
        s == Settled(Steps(Prelude, P, << >>))
    IN  /\ calls[i].pc = "idle"
        /\ calls' = [calls EXCEPT ![i] =
                        [req |-> [action |-> action, provider |-> pv,
                                  dryRun |-> dry, params |-> P],
                         flag |-> calls[i].flag,
                         flag0 |-> hasRepliedRef[calls[i].flag],
                         pc |-> s.pc, provider |-> "", log |-> s.log,
                         rest |-> s.rest, outcome |-> s.outcome,
                         saw |-> "none"]]
        /\ UNCHANGED <<agent, cfg, schema, req, pc, provider, log, rest, outcome,
                       hasRepliedRef>>

\* The resolution of invocation i answers p.
InvocationResolved(i, p) ==
    LET c == calls[i]
        s == Settled(Steps(AfterResolution \o
                           Branch(c.req.action, p, Boolean(c.req.dryRun),
                                  c.req.params),
                           c.req.params, c.log))
    IN  /\ c.pc = "awaiting"
        /\ c.log[Len(c.log)].key = "resolveMessageProviderSelection"
        /\ c.req.provider # "absent" => p = c.req.provider
        /\ calls' = [calls EXCEPT ![i] =
                        [c EXCEPT !.provider = p, !.pc = s.pc, !.log = s.log,
                                  !.rest = s.rest, !.outcome = s.outcome]]
        /\ UNCHANGED <<agent, cfg, schema, req, pc, provider, log, rest, outcome,
                       hasRepliedRef>>

\* The collaborator awaited by invocation i answers.
InvocationAnswered(i) ==
    LET c == calls[i]
        s == Settled(Steps(c.rest, c.req.params, c.log))
    IN  /\ c.pc = "awaiting"
        /\ c.log[Len(c.log)].key \in Dispatchers
        /\ calls' = [calls EXCEPT ![i] =
                        [c EXCEPT !.pc = s.pc, !.log = s.log,
                                  !.rest = s.rest, !.outcome = s.outcome,
                                  !.saw = Seen(c.log[Len(c.log)],
                                               FlagHanded(c.flag),
                                               hasRepliedRef)]]
        /\ hasRepliedRef' \in FlagsAfter(c.log[Len(c.log)], FlagHanded(c.flag),
                                          hasRepliedRef)
        /\ UNCHANGED <<agent, cfg, schema, req, pc, provider, log, rest, outcome>>

\* The collaborator awaited by invocation i rejects with e.
InvocationRejected(i, e) ==
    LET c == calls[i]
    IN  /\ c.pc = "awaiting"
        /\ c.log[Len(c.log)].key \in Dispatchers
        /\ calls' = [calls EXCEPT ![i] =
                        [c EXCEPT !.pc = "done",
                                  !.log = Append(c.log, Raise(e)),
                                  !.rest = << >>,
                                  !.outcome =
                                      [status |-> "failed",
                                       err |-> "DownstreamProviderError",
                                       key |-> c.log[Len(c.log)].key,
                                       cause |-> e],
                                  !.saw = Seen(c.log[Len(c.log)],
                                               FlagHanded(c.flag),
                                               hasRepliedRef)]]
        /\ hasRepliedRef' \in FlagsAfter(c.log[Len(c.log)], FlagHanded(c.flag),
                                          hasRepliedRef)
        /\ UNCHANGED <<agent, cfg, schema, req, pc, provider, log, rest, outcome>>

\* The promise of invocation i is settled.
InvocationReturns(i) ==
    /\ calls[i].pc = "done"
    /\ calls' = [calls EXCEPT ![i] = NoCall(calls[i].flag)]
    /\ UNCHANGED <<agent, cfg, schema, req, pc, provider, log, rest, outcome,
                   hasRepliedRef>>

\* The tool is made; each invocation belongs to some session.
InitConcurrent ==
    /\ cfg = AllPlain
    /\ schema = buildMessageToolSchema(cfg)
    /\ req = NoRequest
    /\ pc = "idle"
    /\ provider = ""
    /\ log = << >>
    /\ rest = << >>
    /\ outcome = NoOutcome
    /\ hasRepliedRef = [f \in FlagInstances |-> FALSE]
    /\ \E fl \in [Invocations -> FlagInstances] :
          calls = [i \in Invocations |-> NoCall(fl[i])]
    /\ agent = NoAgent

NextConcurrent ==
    \E i \in Invocations :
       \/ \E action \in ConcurrentActions, pv \in ConcurrentProviders,
             dry \in { "absent", "true" } :
             InvocationBegins(i, action, pv, dry)
       \/ \E p \in Providers : InvocationResolved(i, p)
       \/ InvocationAnswered(i)
       \/ \E e \in DownstreamErrors : InvocationRejected(i, e)
       \/ InvocationReturns(i)

SpecConcurrent == InitConcurrent /\ [][NextConcurrent]_vars

(***************************************************************************)
(* The catalog and the schema alone, over every configuration of Configs.  *)
(***************************************************************************)
InitCatalog == InitWith(Configs)

NextCatalog == createMessageTool

SpecCatalog == InitCatalog /\ [][NextCatalog]_vars

(***************************************************************************)
(* The catalog against the router: every provider with its section absent  *)
(* or present with one account, and one capability key at a time left      *)
(* unset, granted or denied by each of the sections that are present.      *)
(***************************************************************************)
AgreementConfigs ==
    UNION { [discord : { NoDiscord } \cup
                       { [PlainDiscord EXCEPT !.actions = g] :
                           g \in DiscordGatesFor(k) },
             slack : { NoSlack } \cup
                     { [PlainSlack EXCEPT !.actions = g] : g \in GatesFor(k) },
             telegram : { NoTelegram } \cup
                        { [PlainTelegram EXCEPT !.actions = g] :
                            g \in GatesFor(k) },
             whatsapp : { NoWhatsApp } \cup
                        { [PlainWhatsApp EXCEPT !.actions = g] :
                            g \in GatesFor(k) },
             msteams : { NoMSTeams, PlainMSTeams }] : k \in GateKeys }

InitAgreement == InitWith(AgreementConfigs)

SpecAgreement == InitAgreement /\ [][NextCatalog]_vars

(***************************************************************************)
(* What the claims speak of.                                               *)
(***************************************************************************)
ReadsIn(l) == { i \in DOMAIN l : l[i].op = "read" }

CallsIn(l, fns) == { i \in DOMAIN l : l[i].op = "call" /\ l[i].key \in fns }

Resolver == { "resolveMessageProviderSelection" }

\* The fields execute reads for every action, before the action's branch.
PreludeKeys == { "action", "provider" } \cup CommonKeys

\* The reads of the action's own parameters.
ActionReads(l) == { i \in ReadsIn(l) : l[i].key \notin PreludeKeys }

FullBag == [k \in ParamKeys |-> "ok"]

\* The providers for which the branch of action ends in a collaborator call.
ServedProviders(action) ==
    { p \in Providers :
        LET b == Branch(action, p, FALSE, FullBag) IN b[Len(b)].op = "call" }

RestrictedActions == { a \in KnownActions : ServedProviders(a) # Providers }

LocalErrors ==
    { "MissingRequiredParameter", "InvalidParameterType",
      "UnsupportedActionForProvider", "UnknownAction" }

ExtractorErrors == { "MissingRequiredParameter", "InvalidParameterType" }

Resolved == provider # ""

\* The reads of the prelude all succeed.
PreludeReadsFine ==
    \A i \in DOMAIN AfterResolution : ~ReadOf(req.params, AfterResolution[i]).fail

(***************************************************************************)
(* C1.  For an action whose providers are restricted and a resolved        *)
(* provider outside them, execute fails with the unsupported-action error  *)
(* and has extracted none of the action's own parameters, whichever        *)
(* required parameters the call lacks.  The branches of react, edit,       *)
(* member-info and the like read their required parameters first.          *)
(***************************************************************************)
C1_UnsupportedBeforeExtraction ==
    ( /\ Resolved
      /\ req.action \in RestrictedActions
      /\ provider \notin ServedProviders(req.action)
      /\ PreludeReadsFine )
    => /\ outcome.err = "UnsupportedActionForProvider"
       /\ ActionReads(log) = { }

(***************************************************************************)
(* C2.  A call whose action is not a known action fails with the           *)
(* unknown-action error and the provider resolution is never invoked in    *)
(* it.  execute resolves the provider before it looks at the action.       *)
(***************************************************************************)
C2_UnknownActionBeforeResolution ==
    ( req.action = "bogus" /\ pc # "idle" )
    => /\ CallsIn(log, Resolver) = { }
       /\ pc = "done" => outcome.err = "UnknownAction"

(***************************************************************************)
(* C3.  A call with dryRun = true never invokes a provider-specific        *)
(* handler, whatever the action and the resolved provider.  Only send and  *)
(* poll test dryRun.                                                       *)
(***************************************************************************)
C3_DryRunNeverCallsHandler ==
    Boolean(req.dryRun) => CallsIn(log, Handlers) = { }

(***************************************************************************)
(* C4.  send with dryRun = true: for every resolved provider the only      *)
(* dispatch collaborator called is sendMessage, with dryRun = true, and    *)
(* it is called exactly once unless a parameter read fails; no             *)
(* provider-specific handler is called.                                    *)
(***************************************************************************)
C4_SendDryRunOnlySendMessage ==
    ( req.action = "send" /\ Boolean(req.dryRun) )
    => /\ \A i \in CallsIn(log, Dispatchers) :
             log[i].key = "sendMessage" /\ log[i].dry
       /\ ( Resolved /\ outcome.err \notin ExtractorErrors )
          => Cardinality(CallsIn(log, { "sendMessage" })) = 1

C4_Witness ==
    /\ req.action = "send" /\ Boolean(req.dryRun)
    /\ provider = "discord"
    /\ pc = "done" /\ outcome.status = "ok"
    /\ CallsIn(log, { "sendMessage" }) # { }

(***************************************************************************)
(* C5.  react without messageId fails with the missing-parameter error     *)
(* for messageId and calls no collaborator at all, the provider resolution *)
(* included.  The resolution is called before messageId is read.           *)
(***************************************************************************)
C5_ReactWithoutMessageIdCallsNothing ==
    ( req.action = "react" /\ req.params["messageId"] = "absent"
      /\ pc # "idle" )
    => /\ CallsIn(log, Dispatchers \cup Resolver) = { }
       /\ pc = "done" => /\ outcome.err = "MissingRequiredParameter"
                         /\ outcome.key = "messageId"

(***************************************************************************)
(* C6.  No partial success: when execute fails with an error it raised     *)
(* itself, no dispatch collaborator was invoked in the call; and every     *)
(* parameter read of the call precedes its dispatch collaborator call.     *)
(***************************************************************************)
C6_NoPartialSuccess ==
    /\ outcome.err \in LocalErrors => CallsIn(log, Dispatchers) = { }
    /\ \A i \in CallsIn(log, Dispatchers) : \A j \in ReadsIn(log) : j < i

C6_Witness ==
    /\ req.action = "sticker" /\ provider = "discord"
    /\ pc = "done"
    /\ outcome.err = "MissingRequiredParameter" /\ outcome.key = "to"
    /\ ActionReads(log) # { }
    /\ CallsIn(log, Dispatchers) = { }

(***************************************************************************)
(* C7.  permissions against a resolved provider other than discord.        *)
(* As stated: it fails with the unsupported-action error and the           *)
(* extractor is never invoked in the call.                                 *)
(***************************************************************************)
C7_ExtractorNeverInvoked ==
    ( req.action = "permissions" /\ Resolved /\ provider # "discord" )
    => /\ outcome.err = "UnsupportedActionForProvider"
       /\ ReadsIn(log) = { }

(***************************************************************************)
(* C7, amended.  permissions against a resolved provider other than        *)
(* discord extracts none of the action's own parameters and calls no       *)
(* dispatch collaborator: the extractor has read the fields of the prelude *)
(* only (action, provider, accountId, gatewayUrl, gatewayToken,            *)
(* timeoutMs), and the call has failed with the unsupported-action error   *)
(* unless one of those reads failed.                                       *)
(***************************************************************************)
C7_NoActionParameterExtracted ==
    ( req.action = "permissions" /\ Resolved /\ provider # "discord" )
    => /\ pc = "done"
       /\ ActionReads(log) = { }
       /\ CallsIn(log, Dispatchers) = { }
       /\ \/ outcome.err = "UnsupportedActionForProvider"
          \/ outcome.err \in ExtractorErrors /\ outcome.key \in PreludeKeys
       /\ PreludeReadsFine => outcome.err = "UnsupportedActionForProvider"

C7_Witness ==
    /\ req.action = "permissions" /\ provider = "slack"
    /\ req.params["channelId"] = "absent" /\ req.params["to"] = "absent"
    /\ outcome.err = "UnsupportedActionForProvider"
    /\ ReadsIn(log) # { }

(***************************************************************************)
(* The catalog claims, checked under SpecCatalog: every configuration of   *)
(* Configs, and the catalog createMessageTool builds from it.              *)
(***************************************************************************)
AccountsOf(c) ==
    [discord |-> c.discord.accounts, slack |-> c.slack.accounts,
     telegram |-> c.telegram.accounts, whatsapp |-> c.whatsapp.accounts]

AccountProviders == { "discord", "slack", "telegram", "whatsapp" }

\* No account of any provider is enabled, and there is no teams provider
\* that is enabled with credentials.
NoEnabledAccount(c) ==
    /\ \A p \in AccountProviders :
          \A i \in DOMAIN AccountsOf(c)[p] : ~AccountsOf(c)[p][i].enabled
    /\ ~(c.msteams.present /\ c.msteams.enabled # "false"
         /\ c.msteams.credentials)

\* C8: in every configuration in which no provider has an enabled account,
\* whatever the capability gates say, the catalog is exactly {"send"}.
C8_NoEnabledAccountOnlySend ==
    ( schema.built /\ NoEnabledAccount(cfg) ) => schema.actions = { "send" }

\* The gate default of a capability key, and the actions the catalog table
\* puts behind a provider's capability key.
GateDefault(key) == key \notin { "roles", "moderation" }

GatedBy(p, key) ==
    CASE p = "discord" /\ key = "reactions" -> { "react", "reactions" }
      [] p = "discord" /\ key = "messages" -> { "read", "edit", "delete" }
      [] p = "discord" /\ key = "pins" -> { "pin", "unpin", "list-pins" }
      [] p = "discord" /\ key = "polls" -> { "poll" }
      [] p = "discord" /\ key = "permissions" -> { "permissions" }
      [] p = "discord" /\ key = "threads" ->
            { "thread-create", "thread-list", "thread-reply" }
      [] p = "discord" /\ key = "search" -> { "search" }
      [] p = "discord" /\ key = "stickers" -> { "sticker" }
      [] p = "discord" /\ key = "memberInfo" -> { "member-info" }
      [] p = "discord" /\ key = "roleInfo" -> { "role-info" }
      [] p = "discord" /\ key = "emojiList" -> { "emoji-list" }
      [] p = "discord" /\ key = "emojiUploads" -> { "emoji-upload" }
      [] p = "discord" /\ key = "stickerUploads" -> { "sticker-upload" }
      [] p = "discord" /\ key = "roles" -> { "role-add", "role-remove" }
      [] p = "discord" /\ key = "channelInfo" ->
            { "channel-info", "channel-list" }
      [] p = "discord" /\ key = "voiceStatus" -> { "voice-status" }
      [] p = "discord" /\ key = "events" -> { "event-list", "event-create" }
      [] p = "discord" /\ key = "moderation" -> { "timeout", "kick", "ban" }
      [] p = "slack" /\ key = "reactions" -> { "react", "reactions" }
      [] p = "slack" /\ key = "messages" -> { "read", "edit", "delete" }
      [] p = "slack" /\ key = "pins" -> { "pin", "unpin", "list-pins" }
      [] p = "slack" /\ key = "memberInfo" -> { "member-info" }
      [] p = "slack" /\ key = "emojiList" -> { "emoji-list" }
      [] p = "telegram" /\ key = "reactions" -> { "react" }
      [] p = "whatsapp" /\ key = "reactions" -> { "react" }
      [] p = "whatsapp" /\ key = "polls" -> { "poll" }
      [] OTHER -> { }

\* The gate of one account: its own `actions` where it carries one, the
\* provider's otherwise.
AccountGate(c, p, a, key) ==
    LET actions == IF p = "slack" /\ a.hasActions THEN a.actions
                   ELSE c[p].actions
    IN  createActionGate(actions, key, GateDefault(key))

\* An enabled account: enabled, and with a credential where the provider's
\* accounts carry one.
EnabledAccount(p, a) ==
    a.enabled /\ ( p # "whatsapp" => a.tokenSource # "none" )

Granting(c, p, key) ==
    { i \in DOMAIN AccountsOf(c)[p] :
        /\ EnabledAccount(p, AccountsOf(c)[p][i])
        /\ AccountGate(c, p, AccountsOf(c)[p][i], key) }

Denying(c, p, key) ==
    { i \in DOMAIN AccountsOf(c)[p] :
        /\ EnabledAccount(p, AccountsOf(c)[p][i])
        /\ ~AccountGate(c, p, AccountsOf(c)[p][i], key) }

\* C9: for every provider and capability key, if any enabled account of the
\* provider has its gate for the key true, the capability is allowed: the
\* actions the key gates are in the catalog (OR across accounts).
C9_AnyEnabledAccountGrants ==
    schema.built =>
        \A p \in AccountProviders : \A key \in GateKeys :
            Granting(cfg, p, key) # { } => GatedBy(p, key) \subseteq schema.actions

Orderings(s) ==
    { [i \in DOMAIN s |-> s[f[i]]] :
        f \in { g \in [DOMAIN s -> DOMAIN s] :
                  \A i, j \in DOMAIN s : g[i] = g[j] => i = j } }

Reordered(c) ==
    { [c EXCEPT !.discord.accounts = d, !.slack.accounts = s,
                !.telegram.accounts = t, !.whatsapp.accounts = w] :
        d \in Orderings(c.discord.accounts),
        s \in Orderings(c.slack.accounts),
        t \in Orderings(c.telegram.accounts),
        w \in Orderings(c.whatsapp.accounts) }

\* C10: permuting the order of the accounts of any provider does not change
\* the set of actions buildMessageActionList returns.
C10_AccountOrderIrrelevant ==
    schema.built =>
        \A c \in Reordered(cfg) : buildMessageActionList(c) = schema.actions

\* Slack alone, its first enabled account denying "reactions" and its second
\* granting it: the catalog has the actions "reactions" gates.
C10_Witness ==
    /\ schema.built
    /\ ~cfg.discord.present /\ ~cfg.telegram.present /\ ~cfg.whatsapp.present
    /\ Len(cfg.slack.accounts) = 2
    /\ 1 \in Denying(cfg, "slack", "reactions")
    /\ 2 \in Granting(cfg, "slack", "reactions")
    /\ { "react", "reactions" } \subseteq schema.actions

\* A provider grants a capability key when one of its enabled accounts has
\* its gate for the key true (spec 4.2, capabilityAllowed).
Grants(c, p, key) == Granting(c, p, key) # { }

\* The teams provider is enabled with valid credentials.
TeamsEnabled(c) ==
    c.msteams.present /\ c.msteams.enabled # "false" /\ c.msteams.credentials

\* C11: "poll" is in the catalog if and only if discord is enabled and
\* grants "polls", or whatsapp grants "polls", or the teams provider is
\* enabled with valid credentials.
C11_PollIffGranted ==
    schema.built =>
        ( "poll" \in schema.actions
          <=> \/ Grants(cfg, "discord", "polls")
              \/ Grants(cfg, "whatsapp", "polls")
              \/ TeamsEnabled(cfg) )

\* C12: "react" is in the catalog iff an enabled provider among discord,
\* slack, telegram and whatsapp grants "reactions"; "reactions" is in the
\* catalog iff discord or slack grants "reactions".
C12_ReactAndReactionsIffGranted ==
    schema.built =>
        /\ "react" \in schema.actions
           <=> \E p \in AccountProviders : Grants(cfg, p, "reactions")
        /\ "reactions" \in schema.actions
           <=> \/ Grants(cfg, "discord", "reactions")
               \/ Grants(cfg, "slack", "reactions")

\* Discord is enabled: one of its accounts is enabled and has a credential.
DiscordIsEnabled(c) ==
    \E i \in DOMAIN c.discord.accounts :
        EnabledAccount("discord", c.discord.accounts[i])

\* The keys execute's catalog asks discordGate for.
DiscordGateKeys == GateKeys \ { "emojiList" }

PrivilegedKeys == { "roles", "moderation" }

\* C13: role-add, role-remove, timeout, kick and ban are in the catalog only
\* when discord is enabled and the "roles" / "moderation" gate is explicitly
\* true; with the gate absent they are not in the catalog, whereas the
\* absence of any other discord gate grants what it gates.
C13_PrivilegedNeedExplicitGrant ==
    schema.built =>
        /\ \A key \in PrivilegedKeys :
              /\ GatedBy("discord", key) \cap schema.actions # { }
                 => /\ DiscordIsEnabled(cfg)
                    /\ cfg.discord.actions[key] = "true"
              /\ cfg.discord.actions[key] = "unset"
                 => GatedBy("discord", key) \cap schema.actions = { }
        /\ \A key \in DiscordGateKeys \ PrivilegedKeys :
              ( DiscordIsEnabled(cfg) /\ cfg.discord.actions[key] = "unset" )
              => GatedBy("discord", key) \subseteq schema.actions

\* Discord enabled and no gate set: the privileged actions are out, the
\* other discord actions are in.
C13_Witness ==
    /\ schema.built
    /\ DiscordIsEnabled(cfg)
    /\ cfg.discord.actions = NoGates
    /\ { "role-add", "role-remove", "timeout", "kick", "ban" }
          \cap schema.actions = { }
    /\ { "permissions", "search", "role-info" } \subseteq schema.actions

DiscordOnlyKeys ==
    { "permissions", "threads", "search", "stickers", "roleInfo",
      "emojiUploads", "stickerUploads", "channelInfo", "voiceStatus",
      "events", "roles", "moderation" }

DiscordOnlyActions == UNION { GatedBy("discord", key) : key \in DiscordOnlyKeys }

\* C14: with no discord account enabled with a credential none of the
\* discord-only actions is in the catalog, whatever the gates say; with
\* discord enabled each is present iff its own gate grants it.
C14_DiscordFamilyNeedsDiscord ==
    schema.built =>
        /\ ~DiscordIsEnabled(cfg) => DiscordOnlyActions \cap schema.actions = { }
        /\ DiscordIsEnabled(cfg) =>
              \A key \in DiscordOnlyKeys : \A a \in GatedBy("discord", key) :
                  a \in schema.actions
                  <=> createActionGate(cfg.discord.actions, key,
                                       GateDefault(key))

\* A discord section whose accounts lack a credential or are disabled, its
\* "permissions" gate explicitly true: the action stays out.
C14_Witness ==
    /\ schema.built
    /\ cfg.discord.present /\ cfg.discord.accounts # << >>
    /\ ~DiscordIsEnabled(cfg)
    /\ cfg.discord.actions["permissions"] = "true"
    /\ DiscordOnlyActions \cap schema.actions = { }

\* C15: member-info is in the catalog iff discord or slack grants the
\* member-info gate, and emoji-list iff discord or slack grants the
\* emoji-list gate, whatever any other gate says.
C15_OwnGateOnBothSides ==
    schema.built =>
        /\ "member-info" \in schema.actions
           <=> \/ Grants(cfg, "discord", "memberInfo")
               \/ Grants(cfg, "slack", "memberInfo")
        /\ "emoji-list" \in schema.actions
           <=> \/ Grants(cfg, "discord", "emojiList")
               \/ Grants(cfg, "slack", "emojiList")

WholeFamilies ==
    { [key |-> "messages", names |-> { "read", "edit", "delete" }],
      [key |-> "pins", names |-> { "pin", "unpin", "list-pins" }] }

\* C16: read, edit and delete are all in the catalog iff discord or slack
\* grants "messages" and all out otherwise; pin, unpin and list-pins
\* likewise for "pins".  Telegram, whatsapp and teams never add them.
C16_FamiliesEnterWhole ==
    schema.built =>
        \A f \in WholeFamilies :
            /\ f.names \subseteq schema.actions
               <=> \/ Grants(cfg, "discord", f.key)
                   \/ Grants(cfg, "slack", f.key)
            /\ f.names \subseteq schema.actions
               \/ f.names \cap schema.actions = { }

\* Telegram enabled and explicitly granting "messages", discord and slack
\* not configured: none of read, edit, delete.
C16_Witness ==
    /\ schema.built
    /\ Grants(cfg, "telegram", "messages")
    /\ cfg.telegram.actions["messages"] = "true"
    /\ ~cfg.discord.present /\ ~cfg.slack.present
    /\ { "read", "edit", "delete" } \cap schema.actions = { }

\* An enabled telegram account with a credential that has the
\* inline-buttons capability, its own or the one set for all accounts.
TelegramButtonsAccounts(c) ==
    { i \in DOMAIN c.telegram.accounts :
        /\ EnabledAccount("telegram", c.telegram.accounts[i])
        /\ \/ c.telegram.accounts[i].inlineButtons
           \/ c.telegram.inlineButtons }

\* C17: the advertised schema has the "buttons" field, in any variant, only
\* if an enabled telegram account with a credential has the inline-buttons
\* capability; a disabled account that carries it does not count.
C17_ButtonsOnlyForEnabledAccount ==
    ( /\ schema.built
      /\ \E i \in DOMAIN schema.variants :
             "buttons" \in schema.variants[i].optional
                           \cup schema.variants[i].required )
    => TelegramButtonsAccounts(cfg) # { }

\* The action names the advertised schema accepts.
Accepted(sch) == UNION { sch.variants[i].action : i \in DOMAIN sch.variants }

\* C18: the action names the advertised schema accepts are the catalog of
\* the configuration: a "send" variant that requires to and message, and,
\* iff the catalog has other members, a second variant over exactly the
\* catalog minus "send" in which to and message are optional.
C18_SchemaAcceptsTheCatalog ==
    schema.built =>
        LET catalog == buildMessageActionList(cfg)
            v == schema.variants
        IN  /\ Accepted(schema) = catalog
            /\ Len(v) = IF catalog = { "send" } THEN 1 ELSE 2
            /\ v[1].action = { "send" }
            /\ { "to", "message" } \subseteq v[1].required
            /\ Len(v) = 2 =>
                  /\ v[2].action = catalog \ { "send" }
                  /\ { "to", "message" } \subseteq v[2].optional
                  /\ { "to", "message" } \cap v[2].required = { }

\* Telegram alone: the second variant accepts "react" and nothing else.
C18_Witness ==
    /\ schema.built
    /\ Len(schema.variants) = 2
    /\ schema.variants[2].action = { "react" }
    /\ Grants(cfg, "telegram", "reactions")

\* The rejections of dispatch collaborators, where they happened.
RaisesIn(l) ==
    { i \in DOMAIN l : l[i].op = "raise" /\ l[i].key \in DownstreamErrors }

\* C19: execute calls the dispatch collaborators at most once in all; when
\* that call rejects, nothing is read or called after it and execute
\* rejects with the error the collaborator raised.
C19_NoRetryErrorUnchanged ==
    /\ Cardinality(CallsIn(log, Dispatchers)) <= 1
    /\ \A i \in RaisesIn(log) :
          /\ i = Len(log)
          /\ CallsIn(log, Dispatchers) = { i - 1 }
          /\ pc = "done"
          /\ outcome.status = "failed"
          /\ outcome.cause = log[i].key

\* A handler rejected with a timeout and execute failed with it.
C19_Witness ==
    /\ pc = "done"
    /\ RaisesIn(log) # { }
    /\ \E i \in CallsIn(log, Handlers) : log[i + 1] = Raise("timeout")
    /\ outcome.cause = "timeout"

(***************************************************************************)
(* The states of spec 4.6 as the model shows them.  Received: execute has  *)
(* begun.  EligibilityChecked: the resolved provider is one the action's   *)
(* branch serves.  Validated: the parameters the branch has read are all   *)
(* fine.  Dispatched: a dispatch collaborator is awaited.  Succeeded and   *)
(* Failed: the promise of execute is settled.                              *)
(***************************************************************************)
EligibilityPassed ==
    /\ Resolved
    /\ req.action \in KnownActions
    /\ provider \in ServedProviders(req.action)

ValidationBegun == ActionReads(log) # { }

ValidationPassed ==
    \A i \in ReadsIn(log) : ~ReadOf(req.params, log[i]).fail

Dispatched == pc = "awaiting" /\ Awaited \in Dispatchers

Terminal == pc = "done"

\* Validation begins only once eligibility has passed.
EligibilityBeforeValidation == ValidationBegun => EligibilityPassed

\* A collaborator is called only once eligibility and validation have passed.
DispatchedAfterBoth ==
    CallsIn(log, Dispatchers) # { } => EligibilityPassed /\ ValidationPassed

\* A settled invocation has succeeded or failed, an unsettled one neither.
OneTerminalState ==
    /\ Terminal => outcome.status \in { "ok", "failed" }
    /\ ~Terminal => outcome.status = "pending"

\* C20: every invocation of execute goes Received, EligibilityChecked,
\* Validated, Dispatched, then Succeeded or Failed: no parameter of the
\* action is extracted before eligibility has passed, a collaborator is
\* called only after eligibility and validation have both passed, and a
\* settled invocation is in exactly one terminal state.
C20_FollowsStateMachine ==
    /\ EligibilityBeforeValidation
    /\ DispatchedAfterBoth
    /\ OneTerminalState

\* The rejections of the provider resolution, where they happened.
ResolutionFailuresIn(l) ==
    { i \in DOMAIN l :
        l[i].op = "raise" /\ l[i].key = "ProviderResolutionFailure" }

\* C21: when the provider resolution fails, execute fails with the
\* resolution's failure, no dispatch collaborator is called and no provider
\* is put in the place of the one that could not be resolved.
C21_ResolutionFailureCallsNothing ==
    \A i \in ResolutionFailuresIn(log) :
        /\ i = Len(log)
        /\ pc = "done"
        /\ outcome.status = "failed"
        /\ outcome.err = "ProviderResolutionFailure"
        /\ CallsIn(log, Dispatchers) = { }
        /\ ~Resolved

\* A well-formed send without provider whose resolution failed.
C21_Witness ==
    /\ ResolutionFailuresIn(log) # { }
    /\ req.action = "send"
    /\ req.provider = "absent"
    /\ req.params = Bag("send", "absent", << >>)
    /\ outcome.err = "ProviderResolutionFailure"

\* C22: the session's flag changes only at the answer of the slack handler
\* to a send that is not a dry run, the one call that was handed the
\* caller's flag; that answer ends the call, so the flag changes at most
\* once in a call, and no other flag than the caller's ever changes.
C22_FlagOnlyBySlackSend ==
    [][ hasRepliedRef' # hasRepliedRef =>
          /\ pc = "awaiting" /\ pc' = "done"
          /\ req.action = "send"
          /\ ~Boolean(req.dryRun)
          /\ provider = "slack"
          /\ log[Len(log)].key = "handleSlackAction"
          /\ log[Len(log)].ctx
          /\ \A f \in FlagInstances \ { ToolFlag } :
                hasRepliedRef'[f] = hasRepliedRef[f] ]_vars

\* A send to slack went through and the session's flag is set.
C22_Witness ==
    /\ pc = "done"
    /\ outcome.status = "ok"
    /\ req.action = "send" /\ provider = "slack" /\ ~Boolean(req.dryRun)
    /\ CallsIn(log, { "handleSlackAction" }) # { }
    /\ hasRepliedRef[ToolFlag]

\* The log of an invocation that runs alone on the same arguments, with the
\* same answer of the resolution and of its collaborator.
AloneLogs(c) ==
    LET pre == Steps(Prelude, c.req.params, << >>)
        mid == Steps(AfterResolution \o
                     Branch(c.req.action, c.provider, Boolean(c.req.dryRun),
                            c.req.params),
                     c.req.params, pre.log)
    IN  IF c.provider = "" THEN { pre.log }
        ELSE { mid.log } \cup { Append(mid.log, Raise(e)) : e \in DownstreamErrors }

DistinctFlags == \A i, j \in Invocations : i # j => calls[i].flag # calls[j].flag

\* C23: two invocations in flight together, made with distinct flag
\* instances: each reads, calls and hands over what it does when it runs
\* alone, its handler finds in the flag what the flag held when the
\* invocation began, and no step of either writes what the router holds
\* (the configuration and the schema).
C23_ConcurrentAsAlone ==
    /\ [] ( DistinctFlags =>
              \A i \in Invocations :
                 /\ calls[i].pc # "idle" => calls[i].log \in AloneLogs(calls[i])
                 /\ calls[i].saw # "none" =>
                       calls[i].saw = SawOf(calls[i].flag0) )
    /\ [][cfg' = cfg /\ schema' = schema]_vars

\* Two sends to slack await their handler at the same time, each with the
\* flag of its own session, one of which is already set.
C23_Witness ==
    /\ DistinctFlags
    /\ \A i \in Invocations :
          /\ calls[i].pc = "awaiting"
          /\ calls[i].log[Len(calls[i].log)].key = "handleSlackAction"
          /\ calls[i].log[Len(calls[i].log)].ctx
    /\ \E i \in Invocations : hasRepliedRef[calls[i].flag]

\* C24: whatever the configuration, the catalog has "send" and has only
\* names of the static list of actions.
C24_CatalogWithinStaticList ==
    schema.built =>
        /\ "send" \in buildMessageActionList(cfg)
        /\ buildMessageActionList(cfg) \subseteq KnownActions
        /\ schema.actions = buildMessageActionList(cfg)

\* A configuration that denies every gate it sets still offers "send"; one
\* that opens moderation offers the last names of the static list.
C24_Witness ==
    /\ schema.built
    /\ { "send", "timeout", "kick", "ban" } \subseteq schema.actions
    /\ Cardinality(schema.actions) > 20

DefaultKeys == DOMAIN DEFAULT_MODEL_ALIASES

\* Every default shorthand the configuration sets keeps its value.
ConfiguredAliasesKept ==
    \A k \in DefaultKeys \cap DOMAIN agent.modelAliases :
       k \in DOMAIN agent.next /\ agent.next[k] = agent.modelAliases[k]

\* C25 as stated: every default shorthand the configuration sets keeps its
\* value, the empty string too, and every default shorthand it does not set
\* is added with its default target.
C25_AbsentDefaultsAdded ==
    agent.applied =>
        /\ ConfiguredAliasesKept
        /\ \A k \in DefaultKeys \ DOMAIN agent.modelAliases :
              k \in DOMAIN agent.next
              /\ agent.next[k] = DEFAULT_MODEL_ALIASES[k]

\* The configured aliases that are the shorthand k in another casing and
\* point elsewhere than k's default target.
OtherCasing(k) ==
    { e \in DOMAIN agent.modelAliases :
        /\ e # k
        /\ normalizeAliasKey(e) = k
        /\ agent.modelAliases[e] # DEFAULT_MODEL_ALIASES[k] }

\* C25 amended: every default shorthand the configuration sets keeps its
\* value, the empty string too; a default shorthand it does not set is
\* added with its default target unless the configuration sets the same
\* name in another casing with another target, and then it is not added and
\* that alias stays as it is.
C25_DefaultsNeverOverride ==
    agent.applied =>
        /\ ConfiguredAliasesKept
        /\ \A k \in DefaultKeys \ DOMAIN agent.modelAliases :
              IF OtherCasing(k) = { }
              THEN k \in DOMAIN agent.next
                   /\ agent.next[k] = DEFAULT_MODEL_ALIASES[k]
              ELSE /\ k \notin DOMAIN agent.next
                   /\ \A e \in OtherCasing(k) :
                         e \in DOMAIN agent.next
                         /\ agent.next[e] = agent.modelAliases[e]

\* gemini is disabled with the empty string and stays so, while the other
\* shorthands are added.
C25_Witness ==
    /\ agent.applied
    /\ DOMAIN agent.modelAliases = { "gemini" }
    /\ agent.modelAliases["gemini"] = ""
    /\ agent.next["gemini"] = ""
    /\ agent.next["gemini-flash"] = "google/gemini-3-flash-preview"

\* C26: every dispatch that is not a dry run, to a provider's handler or to
\* sendMessage, carries the resolved account id (the call's accountId, or
\* else the agent's), whatever the provider, discord included.
C26_DispatchCarriesAccount ==
    \A i \in CallsIn(log, Handlers \cup { "sendMessage" }) :
       ~log[i].dry => log[i].acct

\* C27: when the call names no provider, the resolution is asked with the
\* call's account id: accountId has been read before the resolution is
\* called and is part of what the resolution is given.
C27_ResolutionGivenAccountId ==
    \A i \in CallsIn(log, Resolver) :
       req.provider = "absent" =>
          /\ log[i].acct
          /\ \E j \in ReadsIn(log) : j < i /\ log[j].key = "accountId"

\* The collaborator of a send to provider p that is not a dry run.
SendCollaborator(p) ==
    CASE p = "discord"  -> "handleDiscordAction"
      [] p = "slack"    -> "handleSlackAction"
      [] p = "telegram" -> "handleTelegramAction"
      [] OTHER          -> "sendMessage"

\* C28: a send that is not a dry run calls no other collaborator than the
\* one of the resolved provider: the handler of discord, slack or telegram,
\* sendMessage for every other provider, never the whatsapp handler; and
\* once its parameters are read without failure it calls that one exactly
\* once.
C28_SendCollaboratorByProvider ==
    ( req.action = "send" /\ ~Boolean(req.dryRun) /\ Resolved )
    => /\ \A i \in CallsIn(log, Dispatchers) :
             log[i].key = SendCollaborator(provider)
       /\ CallsIn(log, { "handleWhatsAppAction" }) = { }
       /\ outcome.err \notin ExtractorErrors
          => Cardinality(CallsIn(log, Dispatchers)) = 1

\* A send to whatsapp went through sendMessage.
C28_Witness ==
    /\ req.action = "send" /\ ~Boolean(req.dryRun)
    /\ provider = "whatsapp"
    /\ pc = "done" /\ outcome.status = "ok"
    /\ Cardinality(CallsIn(log, { "sendMessage" })) = 1

\* The reads made before step i of the log.
ReadBefore(l, i) == { l[j].key : j \in { r \in ReadsIn(l) : r < i } }

\* C29: a poll has to, pollQuestion and pollOption read, without failure,
\* before any collaborator is called; a poll that is not a dry run goes to
\* the discord handler iff the provider is discord and to sendPoll for every
\* other provider; no provider is turned away as unsupported.
C29_PollValidatedThenRouted ==
    ( req.action = "poll" /\ Resolved )
    => /\ \A i \in CallsIn(log, Dispatchers) :
             /\ { "to", "pollQuestion", "pollOption" } \subseteq ReadBefore(log, i)
             /\ \A k \in { "to", "pollQuestion", "pollOption" } :
                   req.params[k] = "ok"
             /\ ~Boolean(req.dryRun) =>
                   log[i].key = IF provider = "discord"
                                THEN "handleDiscordAction" ELSE "sendPoll"
       /\ outcome.err # "UnsupportedActionForProvider"
       /\ outcome.err \notin ExtractorErrors
          => Cardinality(CallsIn(log, Dispatchers)) = 1

\* A poll for signal, which has no polls of its own, went through sendPoll.
C29_Witness ==
    /\ req.action = "poll" /\ ~Boolean(req.dryRun)
    /\ provider = "signal"
    /\ pc = "done" /\ outcome.status = "ok"
    /\ CallsIn(log, { "sendPoll" }) # { }

\* C30: every call of sendPoll, dry run or not, carries maxSelections 1
\* unless pollMulti is the boolean true, and then the larger of 2 and the
\* number of options: never less than 1, and never less than 2 when several
\* may be chosen, even with a single option.
C30_MaxSelections ==
    \A i \in CallsIn(log, { "sendPoll" }) :
       LET m == log[i].maxSelections
           n == req.params["pollOption.length"]
       IN  /\ m >= 1
           /\ IF req.params["pollMulti"] = "true"
              THEN m >= 2 /\ m >= n /\ m \in { 2, n }
              ELSE m = 1

\* Several may be chosen among a single option: maxSelections is 2.
C30_Witness ==
    /\ req.action = "poll"
    /\ req.params["pollMulti"] = "true"
    /\ req.params["pollOption.length"] = 1
    /\ \E i \in CallsIn(log, { "sendPoll" }) : log[i].maxSelections = 2

\* C31: whatever the configuration, a call whose action is not in the
\* catalog built from the configuration invokes no dispatch collaborator.
\* execute loads the configuration for the provider resolution only and never
\* looks the action up in the catalog.
C31_CatalogEnforcedAtCall ==
    ( schema.built /\ req.action \notin buildMessageActionList(cfg) )
    => CallsIn(log, Dispatchers) = { }

\* The configuration without the section of provider p.
Without(c, p) == [c EXCEPT ![p] = NoProviders[p]]

\* The actions that the section of p is what puts in the catalog of c: they
\* are in the catalog of c and not in the catalog of c without p.
PutsInCatalog(c, p) ==
    buildMessageActionList(c) \ buildMessageActionList(Without(c, p))

\* The pairs of action and resolved provider for which execute, with every
\* parameter present and well formed, reaches a collaborator call, with and
\* without dryRun.
DispatchPaths ==
    { ap \in KnownActions \X Providers :
        \A d \in BOOLEAN :
           Steps(AfterResolution \o Branch(ap[1], ap[2], d, FullBag),
                 FullBag, << >>).status = "dispatched" }

\* C32: for every configuration, every provider p and every action a that
\* the section of p is what puts in the catalog, the router has a dispatch
\* path for (a, p): execute with action a, resolved provider p and every
\* parameter present reaches a collaborator call and does not fail with the
\* unsupported-provider error.
C32_CatalogAndRouterAgree ==
    schema.built
    => \A p \in DOMAIN cfg :
          \A a \in schema.actions \ buildMessageActionList(Without(cfg, p)) :
             <<a, p>> \in DispatchPaths

\* Telegram alone is what puts "react" in the catalog, and the router has
\* the telegram arm of react.
C32_Witness ==
    /\ schema.built
    /\ "react" \in schema.actions
    /\ "react" \in PutsInCatalog(cfg, "telegram")
    /\ <<"react", "telegram">> \in DispatchPaths

\* C33: a call whose action is one of the statically declared names never
\* ends with the unknown-action error, whatever its provider and its
\* parameters; a call that ends with that error names an action outside the
\* static list.  Every name of AllMessageActions has its `if` in the chain
\* of execute, and every branch of the chain ends in a return or a throw of
\* its own.
C33_UnknownActionOnlyOutsideStaticList ==
    /\ req.action \in KnownActions => outcome.err # "UnknownAction"
    /\ outcome.err = "UnknownAction" => req.action = "bogus"

\* "ban", the last name of the chain, was served by its own branch.
C33_Witness ==
    /\ pc = "done"
    /\ req.action = "ban"
    /\ outcome.status = "ok"
    /\ CallsIn(log, { "handleDiscordAction" }) # { }

====
